---- MODULE Spec2Model ----
(***************************************************************************)
(* Model of simple_load_impress.py: a module-level list of image file      *)
(* names (AVAILABLE_IMAGES), three functions that look the names up in the *)
(* current working directory, and the demonstration run under              *)
(* `if __name__ == "__main__"`.                                            *)
(*                                                                         *)
(* Python values are modelled as follows.                                  *)
(*   - A pathlib.Path is the sequence of its components; `dir / name`      *)
(*     appends a component.                                                *)
(*   - The file system is the set of paths that exist.                     *)
(*   - A value returned to the caller is a record [kind, value, stdout].   *)
(*     A returned REFERENCE to the module list has kind "AVAILABLE_IMAGES" *)
(*     and is read through the variable AVAILABLE_IMAGES; a fresh list has *)
(*     its own value.  A raised exception has the exception class as kind. *)
(*   - The nine screenshot names are written by their time stamp           *)
(*     ("5.49.14.png" for "<prefix> 5.49.14.png"); the common prefix plays  *)
(*     no part in any comparison.                                          *)
(***************************************************************************)
EXTENDS Integers, Sequences, FiniteSets

VARIABLES
    AVAILABLE_IMAGES,  \* the module-level list object (lines 10-20)
    cwd,               \* what Path.cwd() returns
    fs,                \* the set of paths that exist
    op,                \* the step taken last
    args,              \* arguments of the last load_impress call
    result,            \* what the call just made returned or raised
    aliased,           \* the caller holds a reference to AVAILABLE_IMAGES
    listed,            \* <<v>>, v the first value list_available_images returned
    edits,             \* number of edits the caller made to returned lists
    pc,                \* position of the __main__ block
    steps,             \* numbers of the demo sections announced on stdout
    images,            \* __main__: images
    info,              \* __main__: info
    image_path,        \* __main__: image_path
    all_images,        \* __main__: all_images
    i,                 \* __main__: index of the loop over all_images
    errors,            \* __main__: number of "Error: ..." lines printed
    exit               \* exit status of the process, -1 while it runs

libvars  == <<op, args, result, aliased, listed, edits>>
demovars == <<pc, steps, images, info, image_path, all_images, i, errors, exit>>
vars     == <<AVAILABLE_IMAGES, cwd, fs, libvars, demovars>>

\* Bound of the model: the number of edits the caller makes to returned lists.
MaxEdits == 1

\* ------------------------------------------------------------------------
\* Data
\* ------------------------------------------------------------------------

\* The list literal bound to AVAILABLE_IMAGES when the module is loaded.
AvailableImagesLiteral ==
    << "5.49.14.png", "5.52.20.png", "5.53.59.png",
       "5.56.35.png", "5.58.16.png", "6.02.05.png",
       "6.11.50.png", "6.13.30.png", "6.15.07.png" >>

\* Python's None, as the default of image_name.
None == "None"

\* A file name that is not in the list literal.
OtherName == "notes.png"

Range(s) == { s[k] : k \in DOMAIN s }

\* The first, a middle and the last listed name.
SomeListed == { AvailableImagesLiteral[1], AvailableImagesLiteral[5],
                AvailableImagesLiteral[Len(AvailableImagesLiteral)] }

\* Values passed as image_name: None, the empty string, every listed name
\* and an unlisted one.
ImageNames == {None, ""} \cup Range(AvailableImagesLiteral) \cup {OtherName}

\* Names of the files that other processes create and remove while this one
\* runs.
FileNames == SomeListed \cup {OtherName}

\* Directories the process may have been started in.
WorkingDirs == { <<"home", "imp">>, <<"tmp">> }

\* ------------------------------------------------------------------------
\* pathlib and the truth value of a str
\* ------------------------------------------------------------------------

\* A join that drops the directory.
PathJoin_NameOnly(dir, name) == <<name>>

\* dir / name
PathJoin(dir, name) == Append(dir, name)

\* An existence test that always succeeds.
exists_AlwaysTrue(path) == TRUE

\* path.exists()
exists(path) == path \in fs

\* str(path)
Str(path) == [type |-> "str", of |-> path]

\* `if image_name:` : None and "" are false.
Truthy(image_name) == image_name # None /\ image_name # ""

\* `x in lst`
In(x, lst) == \E k \in DOMAIN lst : lst[k] = x

\* ------------------------------------------------------------------------
\* Values handed to the caller
\* ------------------------------------------------------------------------

Return(kind, value, stdout) == [kind |-> kind, value |-> value, stdout |-> stdout]

Raise(class, about) == [kind |-> class, value |-> about, stdout |-> <<>>]

\* No call has returned since the file system or the list last changed.
NoResult == Return("None", <<>>, <<>>)

NoArgs == [image_name |-> None, download_all |-> FALSE, force_download |-> FALSE]

IsRaised(r) == r.kind \in {"ValueError", "FileNotFoundError"}

\* ------------------------------------------------------------------------
\* load_impress
\* ------------------------------------------------------------------------

\* print(line), stdout being what the call has printed so far.
print(stdout, line) == Append(stdout, line)

\* Lines 39-46: one name.
load_one(current_dir, image_name) ==
    IF ~In(image_name, AVAILABLE_IMAGES)
    THEN Raise("ValueError", [name |-> image_name, available |-> AVAILABLE_IMAGES])
    ELSE LET path == PathJoin(current_dir, image_name)
         IN  IF ~exists(path)
             THEN Raise("FileNotFoundError", path)
             ELSE Return("Path", path, <<>>)

\* The loop of lines 50-55 from index k on: the paths collected and the
\* warnings printed before it.
RECURSIVE load_loop(_, _, _, _)
load_loop(current_dir, k, paths, stdout) ==
    IF k > Len(AVAILABLE_IMAGES)
    THEN Return("list_of_Path", paths, stdout)
    ELSE LET filename == AVAILABLE_IMAGES[k]
             path     == PathJoin(current_dir, filename)
         IN  IF exists(path)
             THEN load_loop(current_dir, k + 1, Append(paths, path), stdout)
             ELSE load_loop(current_dir, k + 1, paths, print(stdout, filename))

\* A bulk lookup that raises at the first listed file that is missing.
load_all_Strict(current_dir) ==
    LET missing == { k \in DOMAIN AVAILABLE_IMAGES :
                        ~exists(PathJoin(current_dir, AVAILABLE_IMAGES[k])) }
    IN  IF missing # {}
        THEN Raise("FileNotFoundError",
                   PathJoin(current_dir,
                            AVAILABLE_IMAGES[CHOOSE k \in missing : \A m \in missing : k <= m]))
        ELSE load_loop(current_dir, 1, <<>>, <<>>)

\* Lines 49-56: every listed name.
load_all(current_dir) == load_loop(current_dir, 1, <<>>, <<>>)

\* A load_impress that tests download_all before image_name.
load_impress_BulkFirst(image_name, download_all, force_download) ==
    LET current_dir == cwd
    IN  IF download_all
        THEN load_all(current_dir)
        ELSE IF Truthy(image_name)
             THEN load_one(current_dir, image_name)
             ELSE Return("AVAILABLE_IMAGES", <<>>, <<>>)

load_impress(image_name, download_all, force_download) ==
    LET current_dir == cwd
    IN  IF Truthy(image_name)
        THEN load_one(current_dir, image_name)
        ELSE IF download_all
             THEN load_all(current_dir)
             ELSE Return("AVAILABLE_IMAGES", <<>>, <<>>)

\* ------------------------------------------------------------------------
\* list_available_images
\* ------------------------------------------------------------------------

\* lst.copy()
Copy(lst) == [k \in 1..Len(lst) |-> lst[k]]

list_available_images == Return("list_of_str", Copy(AVAILABLE_IMAGES), <<>>)

\* ------------------------------------------------------------------------
\* get_image_info
\* ------------------------------------------------------------------------

\* [img for img in AVAILABLE_IMAGES if (current_dir / img).exists()]
existing_images(current_dir) ==
    SelectSeq(AVAILABLE_IMAGES, LAMBDA img : exists(PathJoin(current_dir, img)))

\* A get_image_info that counts the listed names instead of the existing ones.
get_image_info_CountsListed ==
    LET current_dir == cwd
        existing    == existing_images(current_dir)
    IN  Return("dict",
               [ total_images      |-> Len(AVAILABLE_IMAGES),
                 existing_images   |-> Len(AVAILABLE_IMAGES),
                 available_images  |-> "AVAILABLE_IMAGES",
                 existing_files    |-> existing,
                 current_directory |-> Str(current_dir),
                 description       |-> "ICT Impression Wave Verification Screenshots from 2025-08-17" ],
               <<>>)

get_image_info ==
    LET current_dir == cwd
        existing    == existing_images(current_dir)
    IN  Return("dict",
               [ total_images      |-> Len(AVAILABLE_IMAGES),
                 existing_images   |-> Len(existing),
                 available_images  |-> "AVAILABLE_IMAGES",
                 existing_files    |-> existing,
                 current_directory |-> Str(current_dir),
                 description       |-> "ICT Impression Wave Verification Screenshots from 2025-08-17" ],
               <<>>)

\* The file named n of the working directory, as the file system has it.
InWorkingDir(n) == cwd \o <<n>>

\* ------------------------------------------------------------------------
\* The module used as a library: calls, the caller's edits, the file system
\* ------------------------------------------------------------------------

Init ==
    /\ AVAILABLE_IMAGES = AvailableImagesLiteral
    /\ cwd \in WorkingDirs
    /\ fs \in { {}, { InWorkingDir(n) : n \in Range(AvailableImagesLiteral) } }
    /\ op = "import"
    /\ args = NoArgs
    /\ result = NoResult
    /\ aliased = FALSE
    /\ listed = <<>>
    /\ edits = 0
    /\ pc = "imported"
    /\ steps = <<>>
    /\ images = <<>>
    /\ info = NoResult
    /\ image_path = <<>>
    /\ all_images = <<>>
    /\ i = 0
    /\ errors = 0
    /\ exit = -1

\* A file of the working directory is created or removed by another process.
FsChange ==
    /\ \E n \in FileNames :
          LET path == InWorkingDir(n)
          IN  fs' = IF path \in fs THEN fs \ {path} ELSE fs \cup {path}
    /\ op' = "fs"
    /\ args' = NoArgs
    /\ result' = NoResult
    /\ UNCHANGED <<AVAILABLE_IMAGES, cwd, aliased, listed, edits, demovars>>

LoadImpress ==
    \E image_name \in ImageNames, download_all \in BOOLEAN, force_download \in BOOLEAN :
        /\ result' = load_impress(image_name, download_all, force_download)
        /\ args' = [image_name |-> image_name, download_all |-> download_all,
                    force_download |-> force_download]
        /\ aliased' = (aliased \/ result'.kind = "AVAILABLE_IMAGES")
        /\ op' = "load_impress"
        /\ UNCHANGED <<AVAILABLE_IMAGES, cwd, fs, listed, edits, demovars>>

ListAvailableImages ==
    /\ result' = list_available_images
    /\ args' = NoArgs
    /\ listed' = IF listed = <<>> THEN <<result'.value>> ELSE listed
    /\ op' = "list_available_images"
    /\ UNCHANGED <<AVAILABLE_IMAGES, cwd, fs, aliased, edits, demovars>>

GetImageInfo ==
    /\ result' = get_image_info
    /\ args' = NoArgs
    /\ aliased' = TRUE
    /\ op' = "get_image_info"
    /\ UNCHANGED <<AVAILABLE_IMAGES, cwd, fs, listed, edits, demovars>>

\* What a caller does to a list it was handed: append a name or pop the last.
ListEdits == { <<"append", AvailableImagesLiteral[1]>>, <<"append", OtherName>>, <<"pop">> }

ApplyEdit(lst, e) ==
    IF e[1] = "append" THEN Append(lst, e[2]) ELSE SubSeq(lst, 1, Len(lst) - 1)

\* The caller edits the list it got from load_impress() or from
\* get_image_info()["available_images"]: that list is AVAILABLE_IMAGES.
CallerEditsReference ==
    /\ aliased
    /\ edits < MaxEdits
    /\ \E e \in ListEdits :
          /\ e[1] = "pop" => Len(AVAILABLE_IMAGES) > 0
          /\ AVAILABLE_IMAGES' = ApplyEdit(AVAILABLE_IMAGES, e)
    /\ edits' = edits + 1
    /\ op' = "caller_edit"
    /\ args' = NoArgs
    /\ result' = NoResult
    /\ UNCHANGED <<cwd, fs, aliased, listed, demovars>>

\* The caller edits the list it got from list_available_images(): a copy.
CallerEditsCopy ==
    /\ result.kind = "list_of_str"
    /\ edits < MaxEdits
    /\ \E e \in ListEdits :
          /\ e[1] = "pop" => Len(result.value) > 0
          /\ result' = [result EXCEPT !.value = ApplyEdit(result.value, e)]
    /\ edits' = edits + 1
    /\ op' = "caller_edit"
    /\ UNCHANGED <<AVAILABLE_IMAGES, cwd, fs, args, aliased, listed, demovars>>

Next ==
    \/ LoadImpress
    \/ ListAvailableImages
    \/ GetImageInfo
    \/ CallerEditsReference
    \/ CallerEditsCopy
    \/ FsChange

Spec == Init /\ [][Next]_vars

\* ------------------------------------------------------------------------
\* The module run as a program: the block under `if __name__ == "__main__"`
\* ------------------------------------------------------------------------

\* path.stat()
stat(path) ==
    IF exists(path) THEN Return("os.stat_result", path, <<>>)
                    ELSE Raise("FileNotFoundError", path)

\* A handler that takes ValueError only.
Catches_ValueErrorOnly(class, r) == r.kind = "ValueError"

\* `except <class> as e` takes r: ValueError and FileNotFoundError are both
\* subclasses of Exception.
Catches(class, r) == class = "Exception" /\ IsRaised(r)

\* r was raised inside a `try: ... except Exception as e: print(Error)`; an
\* exception no handler takes ends the process with a traceback, status 1.
Except(r, after) ==
    IF Catches("Exception", r)
    THEN /\ errors' = errors + 1
         /\ pc' = after
         /\ exit' = exit
    ELSE /\ errors' = errors
         /\ pc' = "traceback"
         /\ exit' = 1

DemoInit ==
    /\ AVAILABLE_IMAGES = AvailableImagesLiteral
    /\ cwd \in WorkingDirs
    /\ fs \in { {}, { InWorkingDir(n) : n \in Range(AvailableImagesLiteral) } }
    /\ op = "run"
    /\ args = NoArgs
    /\ result = NoResult
    /\ aliased = FALSE
    /\ listed = <<>>
    /\ edits = 0
    /\ pc = "test1"
    /\ steps = <<>>
    /\ images = <<>>
    /\ info = NoResult
    /\ image_path = <<>>
    /\ all_images = <<>>
    /\ i = 0
    /\ errors = 0
    /\ exit = -1

\* Lines 82-88.
Demo1 ==
    /\ pc = "test1"
    /\ steps' = Append(steps, 1)
    /\ images' = list_available_images.value
    /\ pc' = "test2"
    /\ UNCHANGED <<AVAILABLE_IMAGES, cwd, fs, libvars,
                   info, image_path, all_images, i, errors, exit>>

\* Lines 90-95.
Demo2 ==
    /\ pc = "test2"
    /\ steps' = Append(steps, 2)
    /\ info' = get_image_info
    /\ pc' = "test3"
    /\ UNCHANGED <<AVAILABLE_IMAGES, cwd, fs, libvars,
                   images, image_path, all_images, i, errors, exit>>

\* Lines 98-101, and 104-105 when load_impress raises.
Demo3Load ==
    /\ pc = "test3"
    /\ steps' = Append(steps, 3)
    /\ LET r == load_impress(AvailableImagesLiteral[1], FALSE, FALSE)
       IN  IF IsRaised(r)
           THEN /\ Except(r, "test4")
                /\ UNCHANGED image_path
           ELSE /\ image_path' = r.value
                /\ pc' = "test3_exists"
                /\ UNCHANGED <<errors, exit>>
    /\ UNCHANGED <<AVAILABLE_IMAGES, cwd, fs, libvars, images, info, all_images, i>>

\* Line 102.
Demo3Exists ==
    /\ pc = "test3_exists"
    /\ exists(image_path) \in BOOLEAN
    /\ pc' = "test3_stat"
    /\ UNCHANGED <<AVAILABLE_IMAGES, cwd, fs, libvars, steps,
                   images, info, image_path, all_images, i, errors, exit>>

\* Line 103, and 104-105 when stat raises.
Demo3Stat ==
    /\ pc = "test3_stat"
    /\ LET r == stat(image_path)
       IN  IF IsRaised(r)
           THEN Except(r, "test4")
           ELSE /\ pc' = "test4"
                /\ UNCHANGED <<errors, exit>>
    /\ UNCHANGED <<AVAILABLE_IMAGES, cwd, fs, libvars, steps,
                   images, info, image_path, all_images, i>>

\* Lines 108-111, and 114-115 when load_impress raises.
Demo4Load ==
    /\ pc = "test4"
    /\ steps' = Append(steps, 4)
    /\ LET r == load_impress(None, TRUE, FALSE)
       IN  IF IsRaised(r)
           THEN /\ Except(r, "end")
                /\ UNCHANGED <<all_images, i>>
           ELSE /\ all_images' = r.value
                /\ i' = 1
                /\ pc' = "test4_loop"
                /\ UNCHANGED <<errors, exit>>
    /\ UNCHANGED <<AVAILABLE_IMAGES, cwd, fs, libvars, images, info, image_path>>

\* Lines 112-113 for one img_path, and 114-115 when stat raises.
Demo4Stat ==
    /\ pc = "test4_loop"
    /\ IF i > Len(all_images)
       THEN /\ pc' = "end"
            /\ UNCHANGED <<i, errors, exit>>
       ELSE LET r == stat(all_images[i])
            IN  IF IsRaised(r)
                THEN /\ Except(r, "end")
                     /\ UNCHANGED i
                ELSE /\ i' = i + 1
                     /\ UNCHANGED <<pc, errors, exit>>
    /\ UNCHANGED <<AVAILABLE_IMAGES, cwd, fs, libvars, steps,
                   images, info, image_path, all_images>>

\* Line 117 and the end of the script.
DemoEnd ==
    /\ pc = "end"
    /\ pc' = "done"
    /\ exit' = 0
    /\ UNCHANGED <<AVAILABLE_IMAGES, cwd, fs, libvars, steps,
                   images, info, image_path, all_images, i, errors>>

DemoProgram ==
    Demo1 \/ Demo2 \/ Demo3Load \/ Demo3Exists \/ Demo3Stat \/ Demo4Load \/ Demo4Stat \/ DemoEnd

DemoNext ==
    \/ Demo1
    \/ Demo2
    \/ Demo3Load
    \/ Demo3Exists
    \/ Demo3Stat
    \/ Demo4Load
    \/ Demo4Stat
    \/ DemoEnd
    \/ FsChange

\* The interpreter keeps running the script: a statement that can run does.
DemoSpec == DemoInit /\ [][DemoNext]_vars /\ WF_vars(DemoProgram)

\* ------------------------------------------------------------------------
\* Properties
\* ------------------------------------------------------------------------

\* Indices of the listed names whose file is missing.
Missing == { k \in DOMAIN AVAILABLE_IMAGES : InWorkingDir(AVAILABLE_IMAGES[k]) \notin fs }

\* s can be got from t by leaving elements out.
RECURSIVE IsSubSeq(_, _)
IsSubSeq(s, t) ==
    IF s = <<>> THEN TRUE
    ELSE IF t = <<>> THEN FALSE
    ELSE IF Head(s) = Head(t) THEN IsSubSeq(Tail(s), Tail(t))
    ELSE IsSubSeq(s, Tail(t))

NoDuplicates(s) == \A j, k \in DOMAIN s : s[j] = s[k] => j = k

\* C1: load_impress called with any string that is not in AVAILABLE_IMAGES
\* raises ValueError, whatever the file system and the other arguments are.
C1_UnlistedNameRaisesValueError ==
    (op = "load_impress" /\ args.image_name # None
        /\ ~In(args.image_name, AVAILABLE_IMAGES))
    => result.kind = "ValueError"

\* C2: load_impress called with a name of AVAILABLE_IMAGES whose file is not
\* in the working directory raises FileNotFoundError and returns no path.
C2_MissingFileRaisesFileNotFound ==
    (op = "load_impress" /\ args.image_name # None
        /\ In(args.image_name, AVAILABLE_IMAGES)
        /\ InWorkingDir(args.image_name) \notin fs)
    => /\ result.kind = "FileNotFoundError"
       /\ result.value = cwd \o <<args.image_name>>

C2_Witness ==
    /\ op = "load_impress"
    /\ In(args.image_name, AVAILABLE_IMAGES)
    /\ InWorkingDir(args.image_name) \notin fs
    /\ fs # {}
    /\ result.kind = "FileNotFoundError"

\* C3: load_impress called with a name of AVAILABLE_IMAGES whose file is in
\* the working directory returns the one path working directory / name, and
\* that path exists when the test is made.
C3_PresentFileReturnsItsPath ==
    (op = "load_impress" /\ args.image_name # None
        /\ In(args.image_name, AVAILABLE_IMAGES)
        /\ InWorkingDir(args.image_name) \in fs)
    => /\ result.kind = "Path"
       /\ result.value = cwd \o <<args.image_name>>
       /\ result.value \in fs

C3_Witness ==
    /\ op = "load_impress"
    /\ args.image_name = AvailableImagesLiteral[5]
    /\ result.kind = "Path"
    /\ result.value = cwd \o <<AvailableImagesLiteral[5]>>
    /\ \E n \in Range(AvailableImagesLiteral) : InWorkingDir(n) \notin fs

\* C4: AVAILABLE_IMAGES holds the same nine names in the same order after
\* any calls and any edits the caller makes to the values the calls returned.
C4_CatalogNeverChanges ==
    AVAILABLE_IMAGES = AvailableImagesLiteral

\* C5: list_available_images returns a copy holding the nine names of the
\* literal in their order, equal to what its first call returned, whatever
\* calls and caller edits happened before.
C5_ListIsTheFixedCatalog ==
    op = "list_available_images"
    => /\ result.kind = "list_of_str"
       /\ Len(result.value) = 9
       /\ result.value = AvailableImagesLiteral
       /\ result.value = listed[1]

\* C6: load_impress(download_all=True) returns working directory / name for
\* exactly the names of AVAILABLE_IMAGES whose file exists, in list order and
\* without duplicates; at most as many as the list has; none when no listed
\* file exists.
C6_BulkIsExistingInOrderNoDuplicates ==
    (op = "load_impress" /\ args.image_name = None /\ args.download_all)
    => /\ result.kind = "list_of_Path"
       /\ Range(result.value)
            = { InWorkingDir(n) : n \in { m \in Range(AVAILABLE_IMAGES) : InWorkingDir(m) \in fs } }
       /\ IsSubSeq(result.value,
                   [k \in DOMAIN AVAILABLE_IMAGES |-> cwd \o <<AVAILABLE_IMAGES[k]>>])
       /\ NoDuplicates(result.value)
       /\ Len(result.value) <= Len(AVAILABLE_IMAGES)
       /\ (\A n \in Range(AVAILABLE_IMAGES) : InWorkingDir(n) \notin fs) => result.value = <<>>

\* C7: the dict get_image_info returns has existing_images equal to the
\* length of existing_files and at most total_images, total_images equal to
\* the length of available_images, and existing_files a selection of
\* available_images in its order.
C7_InfoIsConsistent ==
    op = "get_image_info"
    => /\ result.kind = "dict"
       /\ LET d       == result.value
              catalog == AVAILABLE_IMAGES   \* d.available_images is that list
          IN  /\ d.available_images = "AVAILABLE_IMAGES"
              /\ d.existing_images = Len(d.existing_files)
              /\ d.existing_images <= d.total_images
              /\ d.total_images = Len(catalog)
              /\ \A k \in DOMAIN d.existing_files : In(d.existing_files[k], catalog)
              /\ IsSubSeq(d.existing_files, catalog)

C7_Witness ==
    /\ op = "get_image_info"
    /\ result.value.existing_images > 0
    /\ result.value.existing_images < result.value.total_images

\* C8: load_impress(download_all=True) and get_image_info raise nothing when
\* files are missing: each returns its value, which leaves out exactly the
\* missing files, and load_impress prints one warning for each of them.
C8_MissingFilesNeverRaise ==
    /\ (op = "load_impress" /\ args.image_name = None /\ args.download_all)
       => /\ result.kind = "list_of_Path"
          /\ Len(result.stdout) = Cardinality(Missing)
          /\ \A k \in DOMAIN result.stdout : InWorkingDir(result.stdout[k]) \notin fs
          /\ Len(result.value) = Len(AVAILABLE_IMAGES) - Cardinality(Missing)
    /\ op = "get_image_info"
       => /\ result.kind = "dict"
          /\ result.stdout = <<>>
          /\ Len(result.value.existing_files) = Len(AVAILABLE_IMAGES) - Cardinality(Missing)

C8_Witness ==
    /\ op = "load_impress" /\ args.image_name = None /\ args.download_all
    /\ result.kind = "list_of_Path"
    /\ Missing # {}
    /\ Len(result.stdout) = Cardinality(Missing)
    /\ result.value # <<>>

\* C9: the program announces its four sections in order and ends with exit
\* status 0, whatever files exist and whenever they are removed.
C9_DemoCompletes ==
    <>(pc = "done" /\ exit = 0 /\ steps = <<1, 2, 3, 4>>)

C9_Witness ==
    /\ pc = "done"
    /\ exit = 0
    /\ errors > 0
    /\ image_path # <<>>
    /\ steps = <<1, 2, 3, 4>>

\* C10: with a non-empty image_name, load_impress gives the same outcome for
\* download_all True and False and never a list: ValueError when the name is
\* not in AVAILABLE_IMAGES (also when a file of that name exists), else
\* FileNotFoundError when the file is missing, else the path.
C10_NameTakesPrecedence ==
    (op = "load_impress" /\ args.image_name # None /\ args.image_name # "")
    => LET name == args.image_name
       IN  /\ result.kind \in {"Path", "ValueError", "FileNotFoundError"}
           /\ ~In(name, AVAILABLE_IMAGES) => result.kind = "ValueError"
           /\ (In(name, AVAILABLE_IMAGES) /\ InWorkingDir(name) \notin fs)
                 => result.kind = "FileNotFoundError"
           /\ (In(name, AVAILABLE_IMAGES) /\ InWorkingDir(name) \in fs)
                 => result = Return("Path", cwd \o <<name>>, <<>>)

C10_Witness ==
    /\ op = "load_impress"
    /\ args.download_all
    /\ args.image_name = OtherName
    /\ InWorkingDir(OtherName) \in fs
    /\ ~In(OtherName, AVAILABLE_IMAGES)
    /\ result.kind = "ValueError"

====
